---- MODULE Spec2Model ----
(***************************************************************************)
(* SimuAI mission playback: the SimulationDashboard timeline (the engine), *)
(* the 3D Scene and the 2D VisualSimulation, as React state machines.      *)
(*                                                                         *)
(* One action is one browser event together with the render and the       *)
(* effects it causes.  A mission swap is two steps, as in React: the       *)
(* commit that renders the new mission prop with the old state (children's *)
(* effects run first, then the dashboard's own effects, which only queue   *)
(* the reset), and the later render that applies the queued reset.         *)
(*                                                                         *)
(* Array indices are the source's 0-based indices; sequences are 1-based,  *)
(* so the waypoint at index i is waypoints[i + 1].                         *)
(* Probabilities are multiples of 1/PScale; Math.random() is a value of    *)
(* 0..PScale-1, i.e. a number in [0, 1).                                   *)
(* Speeds are stored in quarters (0.25x is 1, 1x is 4, 5x is 20).          *)
(***************************************************************************)
EXTENDS Integers, Sequences, FiniteSets, TLC

\* ------------------------------------------------------------- bounds
PScale == 2
MaxStep == 11
MaxVisStep == 11
MaxStepBesideVis == 2
FrameMs == 1100
FitMaxLen == 2
BackMs == 500
MaxBackStep == 3

\* --------------------------------------------------- program constants
totalRuns == 100
StepThreshold == 1000
StepsPerWaypoint == 10
StepsPerRecordedRun == 50
canvasWidth == 800
canvasHeight == 600
margin == 50
scaleCap == 2

\* A speed select that also offered a 0x option.
SpeedOptionsWithZero == {0, 1, 2, 4, 8, 20}
SpeedOptions == {1, 2, 4, 8, 20}
VisSpeedOptions == {2, 4, 8, 20}
ViewModes == {"2D", "3D", "split"}

Min(a, b) == IF a < b THEN a ELSE b

\* ------------------------------------------------------ mission inputs
Wp(id, x, y, z) == [id |-> id, x |-> x, y |-> y, z |-> z]
Sc(ids, p) == [affected_waypoint_ids |-> ids, probability |-> p]
Rec(run, wp, sc) == [run_number |-> run, waypoint_id |-> wp, scenario |-> sc]

\* Mission 1: three waypoints on a line; a certain scenario on the second
\* waypoint and a possible one on the first two.
\* Mission 2: two waypoints sharing (x, y); a certain scenario on the first
\* and an impossible one on both.
\* Mission 3: a single waypoint; Mission 4: an empty waypoint list.
Missions ==
  << [waypoints |-> <<Wp(1, 0, 0, 0), Wp(2, 10, 0, 0), Wp(3, 20, 0, 0)>>,
      failure_scenarios |-> <<Sc(<<2>>, PScale), Sc(<<1, 2>>, 1)>>],
     [waypoints |-> <<Wp(1, 5, 5, 0), Wp(2, 5, 5, 8)>>,
      failure_scenarios |-> <<Sc(<<1>>, PScale), Sc(<<1, 2>>, 0)>>],
     [waypoints |-> <<Wp(1, 3, 4, 5)>>,
      failure_scenarios |-> <<>>],
     [waypoints |-> <<>>,
      failure_scenarios |-> <<>>] >>

MissionIds == 1..Len(Missions)

\* The batch results a mission can arrive with: result 1 carries no
\* detailed_failures, result 2 carries records the batch simulator wrote for
\* scenarios of that mission that can fire (probability > 0).
DetailedFailures(m) ==
  IF m = 1 THEN <<Rec(1, 2, 1), Rec(1, 1, 2), Rec(2, 2, 1)>>
  ELSE IF m = 2 THEN <<Rec(1, 1, 1)>>
  ELSE <<>>

ResultIds == {1, 2}

\* Missions drawn for the 2D fit: every list of 1..FitMaxLen waypoints whose
\* x and y are taken from FitCoords (z = 0, no failure scenarios), numbered
\* after the missions above; lists of one length are numbered consecutively.
FitCoords == <<-300, 0, 546>>
FitPoints == Len(FitCoords) * Len(FitCoords)

RECURSIVE Pow(_, _)
Pow(b, e) == IF e = 0 THEN 1 ELSE b * Pow(b, e - 1)

RECURSIVE FitTotal(_)
FitTotal(len) == IF len = 0 THEN 0 ELSE Pow(FitPoints, len) + FitTotal(len - 1)

FitMissionIds == (Len(Missions) + 1)..(Len(Missions) + FitTotal(FitMaxLen))

FitPoint(j, id) ==
  Wp(id, FitCoords[(j % Len(FitCoords)) + 1], FitCoords[(j \div Len(FitCoords)) + 1], 0)

FitList(c, len) ==
  [k \in 1..len |-> FitPoint((c \div Pow(FitPoints, k - 1)) % FitPoints, k)]

RECURSIVE FitDecode(_, _)
FitDecode(c, len) ==
  IF c < Pow(FitPoints, len) THEN FitList(c, len)
  ELSE FitDecode(c - Pow(FitPoints, len), len + 1)

Waypoints(m) ==
  IF m = 0 THEN <<>>
  ELSE IF m \in MissionIds THEN Missions[m].waypoints
  ELSE FitDecode(m - Len(Missions) - 1, 1)
Scenarios(m) ==
  IF m = 0 THEN <<>>
  ELSE IF m \in MissionIds THEN Missions[m].failure_scenarios
  ELSE <<>>
NumWaypoints(m) == Len(Waypoints(m))
LastIndex(m) == NumWaypoints(m) - 1
Includes(seq, x) == \E k \in 1..Len(seq) : seq[k] = x
SeqToSet(seq) == {seq[k] : k \in 1..Len(seq)}

VARIABLES
  mission,               \* App: mission prop (0 is null, else an index of Missions)
  simulationResult,      \* App: result prop (0 is null, else a ResultIds value)
  currentWaypointIndex,  \* SimulationDashboard state
  isPlaying,
  simulationSpeed,
  simulationStep,
  viewMode,
  currentRun,
  activeFailures,        \* string[] of waypoint ids, duplicates kept
  elapsed,               \* currentTime - lastTimeRef.current; -1 while the ref is 0
  animating,             \* the dashboard's animate loop is registered
  animateIndex,          \* currentWaypointIndex captured by the animate closure
  resetPending,          \* the reset-on-mission effect has queued its updates
  pendingTick,           \* a tick queued by a frame that ran before that render
  crashed,               \* an effect threw (read of an undefined waypoint)
  sceneFailures,         \* Scene (3D) state
  dronePosition,         \* Scene: drone position, in tenths
  visIndex,              \* VisualSimulation (2D) local state
  visPlaying,
  visSpeed,
  visStep,
  visFailures,
  visElapsed,
  visAnimating

engineVars == <<currentWaypointIndex, isPlaying, simulationSpeed, simulationStep,
                currentRun, activeFailures, elapsed, animating, animateIndex>>
sceneVars == <<sceneFailures, dronePosition>>
visVars == <<visIndex, visPlaying, visSpeed, visStep, visFailures, visElapsed, visAnimating>>
vars == <<mission, simulationResult, viewMode, resetPending, pendingTick, crashed,
          engineVars, sceneVars, visVars>>

\* ------------------------------------------------ pure parts of a tick
ElapsedCap == 4 * StepThreshold + 1
FrameDeltas == {FrameMs, 2 * FrameMs}

\* Time that passes outside a registered animate callback: the ref keeps its
\* value, so the distance to it grows.  Every value past 4 * StepThreshold
\* crosses the threshold at every speed, so they are stored as ElapsedCap.
Grow(e, dt) == IF e = -1 THEN -1 ELSE Min(e + dt, ElapsedCap)

\* animate: if (!lastTimeRef.current) lastTimeRef.current = currentTime
SinceLast(e, dt) == IF e = -1 THEN 0 ELSE Min(e + dt, ElapsedCap)

\* animate: deltaTime = (currentTime - lastTimeRef.current) * simulationSpeed;
\* deltaTime > 1000 (speed is in quarters, so both sides are times 4)
CrossesThreshold(e, speed) == e * speed > 4 * StepThreshold

\* The advance without its clamp.
NextIndexUnclamped(prevIndex, m) == prevIndex + 1

\* setCurrentWaypointIndex updater: Math.min(prevIndex + 1, length - 1)
NextIndex(prevIndex, m) == Min(prevIndex + 1, LastIndex(m))

\* the updater runs on steps that are a multiple of 10
AdvancesWaypoint(newStep) == newStep % StepsPerWaypoint = 0

\* if (nextIndex === mission.waypoints.length - 1) { setCurrentRun(...);
\* setCurrentWaypointIndex(0) }: the queued 0 is applied after the updater's
\* return value, so the index a wrapping tick leaves is 0.
ReachesEnd(prevIndex, newStep, m) ==
  AdvancesWaypoint(newStep) /\ NextIndex(prevIndex, m) = LastIndex(m)

\* The advance without the queued reset to 0.
TickIndexNoWrap(prevIndex, newStep, m) ==
  IF AdvancesWaypoint(newStep) THEN NextIndex(prevIndex, m) ELSE prevIndex

TickIndex(prevIndex, newStep, m) ==
  IF ~AdvancesWaypoint(newStep) THEN prevIndex
  ELSE IF ReachesEnd(prevIndex, newStep, m) THEN 0
  ELSE NextIndex(prevIndex, m)

\* The end-of-runs test applied to prevRun instead of nextRun.
RunFinishedLate(prevRun) == prevRun > totalRuns

\* setCurrentRun updater: nextRun = prevRun + 1; past totalRuns the run is
\* kept and playback stops.
RunFinished(prevRun) == prevRun + 1 > totalRuns

\* A run counted at every waypoint advance instead of at the end only.
TickRunAtEveryAdvance(prevIndex, prevRun, newStep, m) ==
  IF AdvancesWaypoint(newStep) /\ ~RunFinished(prevRun)
    THEN prevRun + 1 ELSE prevRun

TickRun(prevIndex, prevRun, newStep, m) ==
  IF ReachesEnd(prevIndex, newStep, m) /\ ~RunFinished(prevRun)
    THEN prevRun + 1 ELSE prevRun

\* The tick that never clears isPlaying.
TickPlayingForever(prevIndex, prevRun, newStep, m) == TRUE

TickPlaying(prevIndex, prevRun, newStep, m) ==
  ~(ReachesEnd(prevIndex, newStep, m) /\ RunFinished(prevRun))

\* One Math.random() per scenario.
SampleSets(m) == [1..Len(Scenarios(m)) -> 0..(PScale - 1)]

\* Math.random() < scenario.probability
Fires(sc, sample) == sample < sc.probability

RECURSIVE FlatMapAffected(_, _, _)
FlatMapAffected(scs, keep, k) ==
  IF k > Len(scs) THEN <<>>
  ELSE (IF keep[k] THEN scs[k].affected_waypoint_ids ELSE <<>>)
         \o FlatMapAffected(scs, keep, k + 1)

\* animate's failure sampling: the scenarios that include the waypoint at the
\* index the closure captured and whose sample fires, flat-mapped to their
\* affected ids.  Called only when that waypoint exists.
CurrentFailures(m, closureIndex, samples) ==
  LET scs == Scenarios(m)
      wpId == Waypoints(m)[closureIndex + 1].id
      keep == [k \in 1..Len(scs) |->
                 Includes(scs[k].affected_waypoint_ids, wpId) /\ Fires(scs[k], samples[k])]
  IN FlatMapAffected(scs, keep, 1)

\* currentWaypoint is undefined and the filter callback reads currentWaypoint.id
SamplingThrows(m, closureIndex) ==
  Len(Scenarios(m)) > 0 /\ closureIndex > LastIndex(m)

\* Scene's failure effect: every scenario whose sample fires, whatever the
\* current waypoint.
SceneSample(m, samples) ==
  LET scs == Scenarios(m)
      keep == [k \in 1..Len(scs) |-> Fires(scs[k], samples[k])]
  IN FlatMapAffected(scs, keep, 1)

\* The interpolation with the progress left out: the drone sits on the
\* current waypoint for the whole segment.
ScenePositionNoProgress(m, idx, step) ==
  << 10 * Waypoints(m)[idx + 1].x, 10 * Waypoints(m)[idx + 1].y,
     10 * Waypoints(m)[idx + 1].z >>


\* Scene's drone position effect, in tenths of a coordinate unit:
\* progress = (simulationStep % 10) / 10 between waypoint i and i + 1, or the
\* waypoint itself when there is no next one.
ScenePosition(m, idx, step) ==
  LET wps == Waypoints(m)
      cur == wps[idx + 1]
      k == step % StepsPerWaypoint
  IN IF idx + 2 <= Len(wps)
       THEN LET nxt == wps[idx + 2]
            IN << cur.x * StepsPerWaypoint + (nxt.x - cur.x) * k,
                  cur.y * StepsPerWaypoint + (nxt.y - cur.y) * k,
                  cur.z * StepsPerWaypoint + (nxt.z - cur.z) * k >>
       ELSE << cur.x * StepsPerWaypoint, cur.y * StepsPerWaypoint,
               cur.z * StepsPerWaypoint >>

\* Both drone position effects read mission.waypoints[index].coordinates, which
\* throws when the list is non-empty and the index is past its end.
PositionThrows(m, idx) == NumWaypoints(m) > 0 /\ idx > LastIndex(m)

\* VisualSimulation.animate: the records of run floor(newStep / 50) + 1
VisFailuresAt(m, newStep) ==
  LET recs == DetailedFailures(m)
      run == (newStep \div StepsPerRecordedRun) + 1
      keep == [k \in 1..Len(recs) |-> recs[k].run_number = run]
      ids == [k \in 1..Len(recs) |-> [affected_waypoint_ids |-> <<recs[k].waypoint_id>>]]
  IN FlatMapAffected(ids, keep, 1)

\* if (simulationResult?.detailed_failures) setActiveFailures(...): with
\* result r held, the 2D view's failures after the tick that makes newStep.
VisTickFailures(r, m, newStep, failures) ==
  IF r = 2 THEN VisFailuresAt(m, newStep) ELSE failures

\* VisualSimulation's waypoint advance has no wrap.
VisTickIndex(prevIndex, newStep, m) ==
  IF AdvancesWaypoint(newStep) THEN NextIndex(prevIndex, m) ELSE prevIndex

\* ------------------------------------------- the 2D view's transform
\* Scales are exact fractions n / d; screen coordinates are kept as integer
\* numerators over 2 * d of the scale in force.  The rounding of the doubles
\* the program computes with (relative error below 2^-52 per operation) is
\* not represented.
Frac(n, d) == [n |-> n, d |-> d]
FracLeq(a, b) == a.n * b.d <= b.n * a.d
FracMin(a, b) == IF FracLeq(a, b) THEN a ELSE b

MinOf(S) == CHOOSE v \in S : \A w \in S : v <= w
MaxOf(S) == CHOOSE v \in S : \A w \in S : v >= w

\* The span used as it is, zero included.
SpanKept(span) == span

\* (maxX - minX || 1): a zero span is replaced by 1
SpanOr1(span) == IF span = 0 THEN 1 ELSE span

\* The scale without its 2x cap.
CapScaleNone(scaleX, scaleY) == FracMin(scaleX, scaleY)

\* Math.min(scaleX, scaleY, 2)
CapScale(scaleX, scaleY) == FracMin(FracMin(scaleX, scaleY), Frac(scaleCap, 1))

\* scaleX and scaleY of getTransformData for a non-empty list: the drawing
\* area over the span of the waypoints on that axis.
ScaleX(wps) ==
  LET xs == {wps[k].x : k \in 1..Len(wps)}
  IN Frac(canvasWidth - 2 * margin, SpanOr1(MaxOf(xs) - MinOf(xs)))
ScaleY(wps) ==
  LET ys == {wps[k].y : k \in 1..Len(wps)}
  IN Frac(canvasHeight - 2 * margin, SpanOr1(MaxOf(ys) - MinOf(ys)))

\* getTransformData: bounding box, uniform scale and centring offsets.
\* offsetX2d is offsetX * 2 * d, with offsetX = margin +
\* (canvasWidth - 2 * margin - (maxX - minX) * scale) / 2; same for y.
getTransformData(wps) ==
  IF Len(wps) = 0
    THEN [scale |-> Frac(1, 1), offsetX2d |-> 0, offsetY2d |-> 0, minX |-> 0, minY |-> 0]
    ELSE LET xs == {wps[k].x : k \in 1..Len(wps)}
             ys == {wps[k].y : k \in 1..Len(wps)}
             minX == MinOf(xs)
             maxX == MaxOf(xs)
             minY == MinOf(ys)
             maxY == MaxOf(ys)
             scale == CapScale(ScaleX(wps), ScaleY(wps))
         IN [scale |-> scale,
             offsetX2d |-> 2 * scale.d * margin
                             + scale.d * (canvasWidth - 2 * margin)
                             - (maxX - minX) * scale.n,
             offsetY2d |-> 2 * scale.d * margin
                             + scale.d * (canvasHeight - 2 * margin)
                             - (maxY - minY) * scale.n,
             minX |-> minX, minY |-> minY]

\* transformCoord: (coord - min) * scale + offset, as numerators over 2 * d
transformCoord(wps, x, y) ==
  LET t == getTransformData(wps)
  IN [x |-> 2 * t.scale.n * (x - t.minX) + t.offsetX2d,
      y |-> 2 * t.scale.n * (y - t.minY) + t.offsetY2d]

\* VisualSimulation's drone position effect: the transformed waypoints are
\* interpolated on screen with progress = (simulationStep % 10) / 10; the
\* result is in numerators over 2 * d * 10.
VisDronePosition(m, idx, step) ==
  LET wps == Waypoints(m)
      cur == transformCoord(wps, wps[idx + 1].x, wps[idx + 1].y)
      k == step % StepsPerWaypoint
  IN IF idx + 2 <= Len(wps)
       THEN LET nxt == transformCoord(wps, wps[idx + 2].x, wps[idx + 2].y)
            IN [x |-> cur.x * StepsPerWaypoint + (nxt.x - cur.x) * k,
                y |-> cur.y * StepsPerWaypoint + (nxt.y - cur.y) * k]
       ELSE [x |-> cur.x * StepsPerWaypoint, y |-> cur.y * StepsPerWaypoint]

SceneShown(m, vm) == m # 0 /\ vm \in {"3D", "split"}
VisShown(m, vm) == m # 0 /\ vm \in {"2D", "split"}

\* ------------------------------------------------------------ initial
Init ==
  /\ mission = 0
  /\ simulationResult = 0
  /\ currentWaypointIndex = 0
  /\ isPlaying = FALSE
  /\ simulationSpeed = 4
  /\ simulationStep = 0
  /\ viewMode = "split"
  /\ currentRun = 1
  /\ activeFailures = <<>>
  /\ elapsed = -1
  /\ animating = FALSE
  /\ animateIndex = 0
  /\ resetPending = FALSE
  /\ pendingTick = FALSE
  /\ crashed = FALSE
  /\ sceneFailures = <<>>
  /\ dronePosition = <<0, 0, 0>>
  /\ visIndex = 0
  /\ visPlaying = FALSE
  /\ visSpeed = 4
  /\ visStep = 0
  /\ visFailures = <<>>
  /\ visElapsed = -1
  /\ visAnimating = FALSE

\* --------------------------------------------- children of a commit
\* Scene after a commit that shows it with props (m, idx, step): the failure
\* effect runs when simulationStep or mission changed (resample), the drone
\* position effect returns early without waypoints and throws past the end.
\* A Scene that is not shown has no state; the variables then hold the
\* values a fresh mount starts from.
SceneCommit(shown, m, idx, step, resample, samples) ==
  /\ sceneFailures' = IF ~shown THEN <<>>
                      ELSE IF resample THEN SceneSample(m, samples)
                      ELSE sceneFailures
  /\ dronePosition' = IF ~shown THEN <<0, 0, 0>>
                      ELSE IF NumWaypoints(m) = 0 \/ PositionThrows(m, idx)
                        THEN dronePosition
                      ELSE ScenePosition(m, idx, step)

\* The effect without its cleanup: a registered loop is never cancelled.
AnimationEffectNoCancel(playing, m, idx) ==
  /\ animating' = (animating \/ (playing /\ NumWaypoints(m) > 0))
  /\ animateIndex' = IF playing /\ NumWaypoints(m) > 0 THEN idx ELSE animateIndex

\* The effect without its waypoint-length guard: registered whenever
\* isPlaying holds.
AnimationEffectNoLengthGuard(playing, m, idx) ==
  /\ animating' = playing
  /\ animateIndex' = IF playing THEN idx ELSE 0

\* The animation effect of the dashboard after a commit with (playing, m, idx):
\* registered iff isPlaying and the mission has waypoints; when its
\* dependencies changed the new closure captures idx.
AnimationEffect(playing, m, idx) ==
  /\ animating' = (playing /\ NumWaypoints(m) > 0)
  /\ animateIndex' = IF playing /\ NumWaypoints(m) > 0 THEN idx ELSE 0

VisUnchanged == UNCHANGED visVars

\* VisualSimulation's animate in one frame (its own clock and refs).
VisFrame(dt) ==
  IF visAnimating
    THEN LET e0 == SinceLast(visElapsed, dt)
             newStep == visStep + 1
         IN IF CrossesThreshold(e0, visSpeed)
              THEN /\ visStep' = newStep
                   /\ visIndex' = VisTickIndex(visIndex, newStep, mission)
                   /\ visFailures' = VisTickFailures(simulationResult, mission,
                                                     newStep, visFailures)
                   /\ visElapsed' = 0
                   /\ UNCHANGED <<visPlaying, visSpeed, visAnimating>>
              ELSE /\ visElapsed' = e0
                   /\ UNCHANGED <<visIndex, visPlaying, visSpeed, visStep,
                                  visFailures, visAnimating>>
    ELSE /\ visElapsed' = Grow(visElapsed, dt)
         /\ UNCHANGED <<visIndex, visPlaying, visSpeed, visStep, visFailures,
                        visAnimating>>

\* ------------------------------------------------------------- actions
\* App.onResult: setResult(res); setMission(originalMission).  The commit
\* renders the new mission with the dashboard's old state; Scene's and
\* VisualSimulation's effects run on it, then the dashboard's effects: the
\* animation effect is re-created (mission is a dependency) and the
\* reset-on-mission effect queues its five updates.
LoadMission(m, r, samples) ==
  /\ ~crashed /\ ~resetPending
  /\ mission' = m
  /\ simulationResult' = r
  /\ resetPending' = TRUE
  /\ AnimationEffect(isPlaying, m, currentWaypointIndex)
  /\ SceneCommit(SceneShown(m, viewMode), m, currentWaypointIndex, simulationStep,
                 TRUE, samples)
  /\ visAnimating' = (visPlaying /\ NumWaypoints(m) > 0)
  /\ crashed' = \/ SceneShown(m, viewMode) /\ PositionThrows(m, currentWaypointIndex)
                \/ VisShown(m, viewMode) /\ PositionThrows(m, visIndex)
  /\ UNCHANGED <<currentWaypointIndex, isPlaying, simulationSpeed, simulationStep,
                 currentRun, activeFailures, elapsed, viewMode, pendingTick,
                 visIndex, visPlaying, visSpeed, visStep, visFailures, visElapsed>>

\* A frame that runs after the effects of a mission swap and before the render
\* of the queued reset: the new closure (new mission, old index) is registered
\* and lastTimeRef was not reset, so it can queue a tick.
FrameBeforeReset(dt) ==
  /\ ~crashed /\ resetPending /\ animating /\ ~pendingTick
  /\ CrossesThreshold(SinceLast(elapsed, dt), simulationSpeed)
  /\ pendingTick' = TRUE
  /\ elapsed' = SinceLast(elapsed, dt)
  /\ VisFrame(dt)
  /\ UNCHANGED <<mission, simulationResult, viewMode, resetPending, crashed,
                 currentWaypointIndex, isPlaying, simulationSpeed, simulationStep,
                 currentRun, activeFailures, animating, animateIndex, sceneVars>>

\* The render of the queued reset.  A tick queued in between is applied after
\* the reset values: step 0 + 1, failures sampled by the closure (which throws
\* when its index is past the end of the new list).
ApplyReset(samples, sceneSamples) ==
  /\ ~crashed /\ resetPending
  /\ resetPending' = FALSE
  /\ pendingTick' = FALSE
  /\ currentWaypointIndex' = 0
  /\ currentRun' = 1
  /\ isPlaying' = FALSE
  /\ simulationStep' = IF pendingTick THEN 1 ELSE 0
  /\ elapsed' = IF pendingTick THEN 0 ELSE elapsed
  /\ crashed' = (pendingTick /\ SamplingThrows(mission, animateIndex))
  /\ activeFailures' = IF pendingTick /\ ~SamplingThrows(mission, animateIndex)
                         THEN CurrentFailures(mission, animateIndex, samples)
                         ELSE <<>>
  /\ AnimationEffect(FALSE, mission, 0)
  /\ SceneCommit(SceneShown(mission, viewMode), mission, 0, simulationStep',
                 simulationStep' # simulationStep, sceneSamples)
  /\ UNCHANGED <<mission, simulationResult, viewMode, simulationSpeed, visVars>>

\* handlePlayPause: setIsPlaying(!isPlaying)
PlayPause ==
  /\ ~crashed /\ ~resetPending /\ mission # 0
  /\ isPlaying' = ~isPlaying
  /\ AnimationEffect(~isPlaying, mission, currentWaypointIndex)
  /\ UNCHANGED <<mission, simulationResult, viewMode, resetPending, pendingTick,
                 crashed, currentWaypointIndex, simulationSpeed, simulationStep,
                 currentRun, activeFailures, elapsed, sceneVars, visVars>>

\* handleReset without setCurrentRun(1).
ResetKeepsRun(sceneSamples) ==
  /\ ~crashed /\ ~resetPending /\ mission # 0
  /\ currentWaypointIndex' = 0
  /\ simulationStep' = 0
  /\ activeFailures' = <<>>
  /\ isPlaying' = FALSE
  /\ AnimationEffect(FALSE, mission, 0)
  /\ SceneCommit(SceneShown(mission, viewMode), mission, 0, 0,
                 simulationStep # 0, sceneSamples)
  /\ UNCHANGED <<mission, simulationResult, viewMode, resetPending, pendingTick,
                 crashed, simulationSpeed, elapsed, currentRun, visVars>>

\* handleReset
Reset(sceneSamples) ==
  /\ ~crashed /\ ~resetPending /\ mission # 0
  /\ currentWaypointIndex' = 0
  /\ simulationStep' = 0
  /\ currentRun' = 1
  /\ activeFailures' = <<>>
  /\ isPlaying' = FALSE
  /\ AnimationEffect(FALSE, mission, 0)
  /\ SceneCommit(SceneShown(mission, viewMode), mission, 0, 0,
                 simulationStep # 0, sceneSamples)
  /\ UNCHANGED <<mission, simulationResult, viewMode, resetPending, pendingTick,
                 crashed, simulationSpeed, elapsed, visVars>>

\* handleStepForward without its test against the last index.
StepForwardUnguarded ==
  /\ ~crashed /\ ~resetPending /\ mission # 0
  /\ currentWaypointIndex' = currentWaypointIndex + 1
  /\ SceneCommit(SceneShown(mission, viewMode), mission, currentWaypointIndex + 1,
                 simulationStep, FALSE, <<>>)
  /\ UNCHANGED <<mission, simulationResult, viewMode, resetPending, pendingTick,
                 crashed, isPlaying, simulationSpeed, simulationStep, currentRun,
                 activeFailures, elapsed, animating, animateIndex, visVars>>

\* handleStepForward
StepForward ==
  /\ ~crashed /\ ~resetPending /\ mission # 0
  /\ currentWaypointIndex < LastIndex(mission)
  /\ currentWaypointIndex' = currentWaypointIndex + 1
  /\ SceneCommit(SceneShown(mission, viewMode), mission, currentWaypointIndex + 1,
                 simulationStep, FALSE, <<>>)
  /\ UNCHANGED <<mission, simulationResult, viewMode, resetPending, pendingTick,
                 crashed, isPlaying, simulationSpeed, simulationStep, currentRun,
                 activeFailures, elapsed, animating, animateIndex, visVars>>

\* handleStepBackward
StepBackward ==
  /\ ~crashed /\ ~resetPending /\ mission # 0
  /\ currentWaypointIndex > 0
  /\ currentWaypointIndex' = currentWaypointIndex - 1
  /\ SceneCommit(SceneShown(mission, viewMode), mission, currentWaypointIndex - 1,
                 simulationStep, FALSE, <<>>)
  /\ UNCHANGED <<mission, simulationResult, viewMode, resetPending, pendingTick,
                 crashed, isPlaying, simulationSpeed, simulationStep, currentRun,
                 activeFailures, elapsed, animating, animateIndex, visVars>>

\* the speed select: setSimulationSpeed(Number(e.target.value)); the animation
\* effect is re-created because simulationSpeed is a dependency.
SetSpeed(s) ==
  /\ ~crashed /\ ~resetPending /\ mission # 0
  /\ s # simulationSpeed
  /\ simulationSpeed' = s
  /\ AnimationEffect(isPlaying, mission, currentWaypointIndex)
  /\ UNCHANGED <<mission, simulationResult, viewMode, resetPending, pendingTick,
                 crashed, currentWaypointIndex, isPlaying, simulationStep,
                 currentRun, activeFailures, elapsed, sceneVars, visVars>>

\* The dashboard's animate consuming one tick (the setSimulationStep updater
\* and the updates it queues, as the next render leaves them).
ConsumeTick(samples, sceneSamples) ==
  LET newStep == simulationStep + 1
      playing == TickPlaying(currentWaypointIndex, currentRun, newStep, mission)
      idx == TickIndex(currentWaypointIndex, newStep, mission)
  IN /\ simulationStep' = newStep
     /\ currentWaypointIndex' = idx
     /\ currentRun' = TickRun(currentWaypointIndex, currentRun, newStep, mission)
     /\ isPlaying' = playing
     /\ crashed' = SamplingThrows(mission, animateIndex)
     /\ activeFailures' = IF SamplingThrows(mission, animateIndex) THEN activeFailures
                          ELSE CurrentFailures(mission, animateIndex, samples)
     /\ elapsed' = 0
     /\ animating' = playing
     /\ animateIndex' = IF playing THEN animateIndex ELSE 0
     /\ SceneCommit(SceneShown(mission, viewMode), mission, idx, newStep,
                    TRUE, sceneSamples)

\* One animation frame, dt after the previous one: every registered animate
\* runs with the same timestamp.
Frame(dt, samples, sceneSamples) ==
  /\ ~crashed /\ ~resetPending
  /\ IF animating
       THEN IF CrossesThreshold(SinceLast(elapsed, dt), simulationSpeed)
              THEN ConsumeTick(samples, sceneSamples)
              ELSE /\ elapsed' = SinceLast(elapsed, dt)
                   /\ UNCHANGED <<currentWaypointIndex, isPlaying, simulationStep,
                                  currentRun, activeFailures, animating,
                                  animateIndex, crashed, sceneVars>>
       ELSE /\ elapsed' = Grow(elapsed, dt)
            /\ UNCHANGED <<currentWaypointIndex, isPlaying, simulationStep,
                           currentRun, activeFailures, animating, animateIndex,
                           crashed, sceneVars>>
  /\ VisFrame(dt)
  /\ UNCHANGED <<mission, simulationResult, viewMode, resetPending, pendingTick,
                 simulationSpeed>>

\* Two animate calls before React renders the first one's update: animate
\* only queues the setSimulationStep updater, and lastTimeRef.current is
\* written inside that updater, so the second call (dt2 later) still reads the
\* old ref, crosses the threshold again and queues a second updater.  The
\* render then runs both updaters in order: two steps, the index, run and
\* playing updates of each, the failures of the second sampling, and the ref
\* left at the second call's timestamp.  Taken while the 2D view's own loop is
\* not registered.
FramesBeforeRender(dt1, dt2, samples, sceneSamples) ==
  LET step1 == simulationStep + 1
      idx1 == TickIndex(currentWaypointIndex, step1, mission)
      run1 == TickRun(currentWaypointIndex, currentRun, step1, mission)
      playing1 == TickPlaying(currentWaypointIndex, currentRun, step1, mission)
      step2 == step1 + 1
      idx2 == TickIndex(idx1, step2, mission)
      run2 == TickRun(idx1, run1, step2, mission)
      playing2 == playing1 /\ TickPlaying(idx1, run1, step2, mission)
  IN /\ ~crashed /\ ~resetPending /\ animating /\ ~visAnimating
     /\ CrossesThreshold(SinceLast(elapsed, dt1), simulationSpeed)
     /\ simulationStep' = step2
     /\ currentWaypointIndex' = idx2
     /\ currentRun' = run2
     /\ isPlaying' = playing2
     /\ crashed' = SamplingThrows(mission, animateIndex)
     /\ activeFailures' = IF SamplingThrows(mission, animateIndex) THEN activeFailures
                          ELSE CurrentFailures(mission, animateIndex, samples)
     /\ elapsed' = 0
     /\ animating' = playing2
     /\ animateIndex' = IF playing2 THEN animateIndex ELSE 0
     /\ SceneCommit(SceneShown(mission, viewMode), mission, idx2, step2,
                    TRUE, sceneSamples)
     /\ visElapsed' = Grow(Grow(visElapsed, dt1), dt2)
     /\ UNCHANGED <<mission, simulationResult, viewMode, resetPending, pendingTick,
                    simulationSpeed, visIndex, visPlaying, visSpeed, visStep,
                    visFailures, visAnimating>>

\* A view-mode select that also stops playback.
SetViewModeStops(v, sceneSamples) ==
  /\ ~crashed /\ ~resetPending /\ mission # 0
  /\ v # viewMode
  /\ viewMode' = v
  /\ isPlaying' = FALSE
  /\ AnimationEffect(FALSE, mission, currentWaypointIndex)
  /\ SceneCommit(SceneShown(mission, v), mission, currentWaypointIndex,
                 simulationStep, TRUE, sceneSamples)
  /\ UNCHANGED <<mission, simulationResult, resetPending, pendingTick, crashed,
                 currentWaypointIndex, simulationSpeed, simulationStep, currentRun,
                 activeFailures, elapsed, visVars>>

\* the view-mode select: the three branches of the JSX are different
\* elements, so the renderers of the new mode are mounted afresh (initial
\* state, effects run once) and those of the old mode are unmounted.
SetViewMode(v, sceneSamples) ==
  /\ ~crashed /\ ~resetPending /\ mission # 0
  /\ v # viewMode
  /\ viewMode' = v
  /\ sceneFailures' = IF SceneShown(mission, v)
                        THEN SceneSample(mission, sceneSamples) ELSE <<>>
  /\ dronePosition' = IF SceneShown(mission, v) /\ NumWaypoints(mission) > 0
                        THEN ScenePosition(mission, currentWaypointIndex, simulationStep)
                        ELSE <<0, 0, 0>>
  /\ visIndex' = 0
  /\ visPlaying' = FALSE
  /\ visSpeed' = 4
  /\ visStep' = 0
  /\ visFailures' = <<>>
  /\ visElapsed' = -1
  /\ visAnimating' = FALSE
  /\ UNCHANGED <<mission, simulationResult, resetPending, pendingTick, crashed,
                 engineVars>>

\* VisualSimulation.handlePlayPause
VisPlayPause ==
  /\ ~crashed /\ ~resetPending /\ VisShown(mission, viewMode)
  /\ visPlaying' = ~visPlaying
  /\ visAnimating' = (~visPlaying /\ NumWaypoints(mission) > 0)
  /\ UNCHANGED <<mission, simulationResult, viewMode, resetPending, pendingTick,
                 crashed, engineVars, sceneVars, visIndex, visSpeed, visStep,
                 visFailures, visElapsed>>

\* VisualSimulation.handleReset
VisReset ==
  /\ ~crashed /\ ~resetPending /\ VisShown(mission, viewMode)
  /\ visIndex' = 0
  /\ visStep' = 0
  /\ visFailures' = <<>>
  /\ visPlaying' = FALSE
  /\ visAnimating' = FALSE
  /\ UNCHANGED <<mission, simulationResult, viewMode, resetPending, pendingTick,
                 crashed, engineVars, sceneVars, visSpeed, visElapsed>>

\* VisualSimulation's speed select
VisSetSpeed(s) ==
  /\ ~crashed /\ ~resetPending /\ VisShown(mission, viewMode)
  /\ s # visSpeed
  /\ visSpeed' = s
  /\ UNCHANGED <<mission, simulationResult, viewMode, resetPending, pendingTick,
                 crashed, engineVars, sceneVars, visIndex, visPlaying, visStep,
                 visFailures, visElapsed, visAnimating>>

\* ------------------------------------------------------ specifications
\* Samples are drawn only where a callback calls Math.random().
NoSamples(m) == {[k \in 1..Len(Scenarios(m)) |-> 0]}
TickSamples(dt) ==
  IF animating /\ CrossesThreshold(SinceLast(elapsed, dt), simulationSpeed)
    THEN SampleSets(mission) ELSE NoSamples(mission)
SceneTickSamples(dt) ==
  IF SceneShown(mission, viewMode) THEN TickSamples(dt) ELSE NoSamples(mission)
ResetSamples ==
  IF pendingTick THEN SampleSets(mission) ELSE NoSamples(mission)
SceneResetSamples(nextStep) ==
  IF SceneShown(mission, viewMode) /\ simulationStep # nextStep
    THEN SampleSets(mission) ELSE NoSamples(mission)
SceneMountSamples(m, vm) ==
  IF SceneShown(m, vm) THEN SampleSets(m) ELSE NoSamples(m)

\* The results the 2D view does not read while its own clock stands still.
EngineResultIds == {2}

\* The dashboard with both renderers mounted (split view); the 2D view's own
\* buttons are not pressed.
Next ==
  \/ \E m \in MissionIds, r \in EngineResultIds :
       \E t \in SceneMountSamples(m, viewMode) : LoadMission(m, r, t)
  \/ \E dt \in FrameDeltas : FrameBeforeReset(dt)
  \/ \E s \in ResetSamples, t \in SceneResetSamples(IF pendingTick THEN 1 ELSE 0) :
       ApplyReset(s, t)
  \/ PlayPause
  \/ \E t \in SceneResetSamples(0) : Reset(t)
  \/ StepForward
  \/ StepBackward
  \/ \E s \in SpeedOptions : SetSpeed(s)
  \/ \E dt \in FrameDeltas : \E s \in TickSamples(dt), t \in SceneTickSamples(dt) :
       Frame(dt, s, t) /\ simulationStep' <= MaxStep

Spec == Init /\ [][Next]_vars

\* Playback through all runs: a mission is loaded once, play is pressed
\* whenever playback is stopped, frames keep arriving and reset can be pressed
\* at any point; no pause, step or speed command.  Long enough for the last
\* of the totalRuns runs to complete.
PlaybackMissions == {1, 2, 3}
MaxPlaybackStep == 2 * totalRuns * StepsPerWaypoint + 1

NextPlayback ==
  \/ \E m \in PlaybackMissions, r \in EngineResultIds :
       \E t \in SceneMountSamples(m, viewMode) : mission = 0 /\ LoadMission(m, r, t)
  \/ \E s \in ResetSamples, t \in SceneResetSamples(IF pendingTick THEN 1 ELSE 0) :
       ApplyReset(s, t)
  \/ ~isPlaying /\ PlayPause
  \/ \E t \in SceneResetSamples(0) : Reset(t)
  \/ \E dt \in FrameDeltas : \E s \in TickSamples(dt), t \in SceneTickSamples(dt) :
       Frame(dt, s, t) /\ simulationStep' <= MaxPlaybackStep

SpecPlayback == Init /\ [][NextPlayback]_vars

\* The 2D view's own clock beside the dashboard's: its play and reset
\* controls are pressed, missions arrive with either kind of result, and the
\* dashboard plays for a few steps at its initial speed.
NextVis ==
  \/ \E m \in MissionIds, r \in ResultIds :
       \E t \in SceneMountSamples(m, viewMode) : LoadMission(m, r, t)
  \/ \E s \in ResetSamples, t \in SceneResetSamples(IF pendingTick THEN 1 ELSE 0) :
       ApplyReset(s, t)
  \/ PlayPause
  \/ VisPlayPause
  \/ VisReset
  \/ \E dt \in FrameDeltas : \E s \in TickSamples(dt), t \in SceneTickSamples(dt) :
       /\ Frame(dt, s, t)
       /\ simulationStep' <= MaxStepBesideVis
       /\ visStep' <= MaxVisStep

SpecVis == Init /\ [][NextVis]_vars

\* Playback in which React's render of a queued tick can come after the next
\* frame: missions are loaded, play and pause are pressed, the speed is
\* changed, and frames arrive with the render in time or late.
NextRace ==
  \/ \E m \in PlaybackMissions, r \in EngineResultIds :
       \E t \in SceneMountSamples(m, viewMode) : LoadMission(m, r, t)
  \/ \E s \in ResetSamples, t \in SceneResetSamples(IF pendingTick THEN 1 ELSE 0) :
       ApplyReset(s, t)
  \/ PlayPause
  \/ \E s \in SpeedOptions : SetSpeed(s)
  \/ \E dt \in FrameDeltas : \E s \in TickSamples(dt), t \in SceneTickSamples(dt) :
       Frame(dt, s, t) /\ simulationStep' <= MaxStep
  \/ \E dt1 \in FrameDeltas, dt2 \in FrameDeltas :
       \E s \in TickSamples(dt1), t \in SceneTickSamples(dt1) :
         FramesBeforeRender(dt1, dt2, s, t) /\ simulationStep' <= MaxStep

SpecRace == Init /\ [][NextRace]_vars

\* The view-mode select beside playback: missions are loaded, play and pause
\* are pressed, the view mode is changed at any point and frames arrive.
MaxViewStep == 3

NextView ==
  \/ \E m \in MissionIds, r \in EngineResultIds :
       \E t \in SceneMountSamples(m, viewMode) : LoadMission(m, r, t)
  \/ \E s \in ResetSamples, t \in SceneResetSamples(IF pendingTick THEN 1 ELSE 0) :
       ApplyReset(s, t)
  \/ PlayPause
  \/ \E v \in ViewModes : \E t \in SceneMountSamples(mission, v) : SetViewMode(v, t)
  \/ \E dt \in FrameDeltas : \E s \in TickSamples(dt), t \in SceneTickSamples(dt) :
       Frame(dt, s, t) /\ simulationStep' <= MaxViewStep

SpecView == Init /\ [][NextView]_vars

\* Both renderers animating side by side over one mission: the dashboard's
\* clock drives the Scene and VisualSimulation's own clock drives the 2D view;
\* each is started and then left to run.
NextDrone ==
  \/ \E m \in PlaybackMissions, r \in EngineResultIds :
       \E t \in SceneMountSamples(m, viewMode) : mission = 0 /\ LoadMission(m, r, t)
  \/ \E s \in ResetSamples, t \in SceneResetSamples(IF pendingTick THEN 1 ELSE 0) :
       ApplyReset(s, t)
  \/ ~isPlaying /\ PlayPause
  \/ ~visPlaying /\ VisPlayPause
  \/ \E dt \in FrameDeltas : \E s \in TickSamples(dt), t \in SceneTickSamples(dt) :
       /\ Frame(dt, s, t)
       /\ simulationStep' <= MaxStep
       /\ visStep' <= MaxVisStep

SpecDrone == Init /\ [][NextDrone]_vars

\* The 2D view fitting and animating one mission drawn from FitMissionIds.
NextFit ==
  \/ \E m \in FitMissionIds, r \in EngineResultIds :
       \E t \in SceneMountSamples(m, viewMode) : mission = 0 /\ LoadMission(m, r, t)
  \/ \E s \in ResetSamples, t \in SceneResetSamples(IF pendingTick THEN 1 ELSE 0) :
       ApplyReset(s, t)
  \/ VisPlayPause
  \/ VisReset
  \/ \E dt \in FrameDeltas : \E s \in TickSamples(dt), t \in SceneTickSamples(dt) :
       Frame(dt, s, t) /\ visStep' <= MaxVisStep

SpecFit == Init /\ [][NextFit]_vars

\* Playback left alone: a mission arrives, play is pressed once on the reset
\* dashboard and from then on only frames arrive.  requestAnimationFrame
\* delivers a frame to every registered animate call, so frames are weakly
\* fair; the reset queued by a mission's arrival is always applied.
PlayFromReset ==
  /\ ~isPlaying /\ simulationStep = 0 /\ currentRun = 1 /\ elapsed = -1
  /\ PlayPause

FrameArrives ==
  \E dt \in FrameDeltas : \E s \in TickSamples(dt), t \in SceneTickSamples(dt) :
    Frame(dt, s, t) /\ simulationStep' <= MaxPlaybackStep

ResetApplied ==
  \E s \in ResetSamples, t \in SceneResetSamples(IF pendingTick THEN 1 ELSE 0) :
    ApplyReset(s, t)

NextHalt ==
  \/ \E m \in PlaybackMissions, r \in EngineResultIds :
       \E t \in SceneMountSamples(m, viewMode) : mission = 0 /\ LoadMission(m, r, t)
  \/ ResetApplied
  \/ PlayFromReset
  \/ FrameArrives

SpecHalt ==
  Init /\ [][NextHalt]_vars /\ WF_vars(FrameArrives) /\ WF_vars(ResetApplied)

\* animate called with a timestamp BackMs earlier than the one of the frame
\* before it (a frame whose own elapsed time is negative), and not earlier
\* than lastTimeRef: the same callback, so the same code as any frame.  Taken
\* where the time since lastTimeRef is stored exactly (below ElapsedCap).
FrameBackward(samples, sceneSamples) ==
  /\ animating /\ elapsed >= BackMs /\ elapsed < ElapsedCap
  /\ Frame(-BackMs, samples, sceneSamples)

\* Playback driven by a frame source whose timestamps can step back: a
\* mission arrives, play and pause are pressed, the speed is changed, and
\* frames arrive with later or earlier timestamps.
NextBack ==
  \/ \E m \in PlaybackMissions, r \in EngineResultIds :
       \E t \in SceneMountSamples(m, viewMode) : mission = 0 /\ LoadMission(m, r, t)
  \/ \E s \in ResetSamples, t \in SceneResetSamples(IF pendingTick THEN 1 ELSE 0) :
       ApplyReset(s, t)
  \/ PlayPause
  \/ \E s \in SpeedOptions : SetSpeed(s)
  \/ \E dt \in FrameDeltas : \E s \in TickSamples(dt), t \in SceneTickSamples(dt) :
       Frame(dt, s, t) /\ simulationStep' <= MaxBackStep
  \/ \E s \in TickSamples(-BackMs), t \in SceneTickSamples(-BackMs) :
       FrameBackward(s, t) /\ simulationStep' <= MaxBackStep

SpecBack == Init /\ [][NextBack]_vars

\* ---------------------------------------------------------------- claims
\* A frame of the registered animate loop consumed a tick in this step.
ConsumedTick == ~resetPending /\ simulationStep' > simulationStep

\* C1: with a mission of at least one waypoint held, currentWaypointIndex is
\* within [0, count - 1] of that mission in every reachable state.
C1_IndexWithinMission ==
  NumWaypoints(mission) >= 1 =>
    (0 <= currentWaypointIndex /\ currentWaypointIndex <= NumWaypoints(mission) - 1)

\* C2: whenever a new mission has been accepted, the pause and the reset have
\* already taken effect: the timeline it is rendered with is stopped and at
\* its initial values, and no tick is queued or consumed against it.
C2_ResetBeforeAccept ==
  resetPending =>
    /\ ~isPlaying /\ ~animating /\ ~pendingTick
    /\ currentWaypointIndex = 0 /\ simulationStep = 0

\* C3: on every consumed tick, a scenario of probability 1 that affects the
\* waypoint at the live currentWaypointIndex has all its affected ids in
\* activeFailures after the tick.
C3_CertainScenarioActive ==
  [][ConsumedTick /\ currentWaypointIndex <= LastIndex(mission) =>
       \A k \in 1..Len(Scenarios(mission)) :
         LET sc == Scenarios(mission)[k]
             live == Waypoints(mission)[currentWaypointIndex + 1].id
         IN (sc.probability = PScale /\ live \in SeqToSet(sc.affected_waypoint_ids))
              => SeqToSet(sc.affected_waypoint_ids) \subseteq SeqToSet(activeFailures')
    ]_vars

\* C4: after every consumed tick, activeFailures is, as a set, the union of
\* the affected ids of the scenarios that affect the waypoint at the live
\* currentWaypointIndex and whose sample fired, for some draw of the samples.
C4_FailuresOfLiveWaypoint ==
  [][ConsumedTick /\ currentWaypointIndex <= LastIndex(mission) =>
       \E draw \in SampleSets(mission) :
         SeqToSet(activeFailures') =
           UNION { SeqToSet(Scenarios(mission)[k].affected_waypoint_ids) :
                     k \in { j \in 1..Len(Scenarios(mission)) :
                               /\ Waypoints(mission)[currentWaypointIndex + 1].id
                                    \in SeqToSet(Scenarios(mission)[j].affected_waypoint_ids)
                               /\ draw[j] < Scenarios(mission)[j].probability } }
    ]_vars

\* The ids of a failure list all belong to scenarios of mission m that can
\* fire (probability > 0).
FromPossibleScenarios(m, failures) ==
  \A w \in SeqToSet(failures) :
    \E k \in 1..Len(Scenarios(m)) :
      /\ Scenarios(m)[k].probability > 0
      /\ w \in SeqToSet(Scenarios(m)[k].affected_waypoint_ids)

C6_FinalRunHalts ==
  /\ [](currentRun <= totalRuns)
  /\ [][ ( /\ ConsumedTick
           /\ currentRun = totalRuns
           /\ simulationStep' % 10 = 0
           /\ Min(currentWaypointIndex + 1, NumWaypoints(mission) - 1)
                = NumWaypoints(mission) - 1 )
         => (~isPlaying' /\ currentRun' = totalRuns) ]_vars

\* C6 witness: playback halted by the wrap of run totalRuns.
C6_Witness ==
  /\ currentRun = totalRuns /\ ~isPlaying /\ simulationStep > 0
  /\ simulationStep % 10 = 0 /\ elapsed = 0

\* C7: a tick whose waypoint advance reaches the last index with
\* currentRun < totalRuns leaves currentRun + 1, index 0 and isPlaying true.
C7_WrapStartsNextRun ==
  [][ ( /\ ConsumedTick
        /\ currentRun < totalRuns
        /\ simulationStep' % 10 = 0
        /\ Min(currentWaypointIndex + 1, NumWaypoints(mission) - 1)
             = NumWaypoints(mission) - 1 )
      => (currentRun' = currentRun + 1 /\ currentWaypointIndex' = 0 /\ isPlaying')
    ]_vars

\* C7 witness: the wrap from run totalRuns - 1 into the last run, still playing.
C7_Witness ==
  /\ currentRun = totalRuns /\ isPlaying /\ currentWaypointIndex = 0
  /\ simulationStep % 10 = 0 /\ elapsed = 0 /\ NumWaypoints(mission) >= 2

\* C8 as claimed: a tick adds 1 to simulationStep; on a multiple of 10 the
\* index becomes min(index + 1, last), otherwise index and run are unchanged.
C8_AdvanceClampedOnly ==
  [][ ConsumedTick =>
        /\ simulationStep' = simulationStep + 1
        /\ IF simulationStep' % 10 = 0
             THEN currentWaypointIndex'
                    = Min(currentWaypointIndex + 1, NumWaypoints(mission) - 1)
             ELSE currentWaypointIndex' = currentWaypointIndex
                    /\ currentRun' = currentRun
    ]_vars

\* C8 amended: as claimed, except that an advance that reaches the last index
\* leaves the index at 0.
C8_AdvanceClampedThenWrapped ==
  [][ ConsumedTick =>
        /\ simulationStep' = simulationStep + 1
        /\ IF simulationStep' % 10 = 0
             THEN LET next == Min(currentWaypointIndex + 1, NumWaypoints(mission) - 1)
                  IN currentWaypointIndex'
                       = IF next = NumWaypoints(mission) - 1 THEN 0 ELSE next
             ELSE currentWaypointIndex' = currentWaypointIndex
                    /\ currentRun' = currentRun
    ]_vars

\* C8 witness: the tenth tick advanced the index from 0 to 1 without a wrap.
C8_Witness ==
  /\ mission = 1 /\ simulationStep = 10 /\ currentWaypointIndex = 1
  /\ currentRun = 1 /\ isPlaying /\ elapsed = 0

\* C9: the 2D view's index, step and playing flag equal the engine's (the 3D
\* view is handed the engine's values as props).
C9_RenderersShareClock ==
  VisShown(mission, viewMode) =>
    /\ visIndex = currentWaypointIndex
    /\ visStep = simulationStep
    /\ visPlaying = isPlaying

\* C10: once a mission's reset has been applied, the waypoints the 3D view and
\* the 2D view mark as failing are the engine's activeFailures.
C10_RenderersShowEngineFailures ==
  ~resetPending =>
    /\ SceneShown(mission, viewMode)
         => SeqToSet(sceneFailures) = SeqToSet(activeFailures)
    /\ VisShown(mission, viewMode)
         => SeqToSet(visFailures) = SeqToSet(activeFailures)

\* An animation frame of the dashboard outside a mission swap.
AnyFrame ==
  \E dt \in FrameDeltas : \E s \in TickSamples(dt), t \in SceneTickSamples(dt) :
    Frame(dt, s, t)

\* C11: while playback is paused, a frame delivers no tick: simulationStep,
\* currentWaypointIndex, currentRun and activeFailures are unchanged by it.
C11_NoTickWhilePaused ==
  [][(~isPlaying /\ AnyFrame) =>
       UNCHANGED <<simulationStep, currentWaypointIndex, currentRun, activeFailures>>
    ]_vars

\* C11 witness: playback was paused after a consumed tick and frames went by
\* (more time than any speed leaves unconsumed while playing).
C11_Witness ==
  /\ mission # 0 /\ ~isPlaying /\ ~resetPending /\ ~crashed
  /\ simulationStep >= 1 /\ simulationStep < MaxStep
  /\ elapsed = ElapsedCap

\* C12: time that passed before playback is started is not counted toward
\* the next tick: on the step that starts playback (play after a pause, a
\* reset or a mission change) the time counted since the last consumed tick
\* starts from zero.
C12_PausedTimeNotCounted ==
  [][(~isPlaying /\ isPlaying') => elapsed' <= 0]_vars

\* C13: one crossing of the threshold consumes exactly one tick: whatever
\* time has elapsed and whenever React applies the queued update, no step of
\* the dashboard raises simulationStep by more than 1, and a frame raises it
\* only when the virtual time since the last consumed tick is above the
\* threshold.
C13_OneTickPerCrossing ==
  [][ /\ simulationStep' <= simulationStep + 1
      /\ (~resetPending /\ simulationStep' > simulationStep) =>
           \E dt \in FrameDeltas :
             animating /\ CrossesThreshold(SinceLast(elapsed, dt), simulationSpeed)
    ]_vars

\* C14: reset from any state (playing, stopped, or halted after the final
\* run, at any step, index and run) leaves isPlaying false, simulationStep 0,
\* currentWaypointIndex 0, currentRun 1 and activeFailures empty, and does
\* not change simulationSpeed or the mission.
C14_ResetRestoresInitial ==
  [][(\E t \in SceneResetSamples(0) : Reset(t)) =>
       /\ ~isPlaying' /\ ~animating'
       /\ simulationStep' = 0 /\ currentWaypointIndex' = 0 /\ currentRun' = 1
       /\ activeFailures' = <<>>
       /\ simulationSpeed' = simulationSpeed /\ mission' = mission
    ]_vars

\* C14 witness: the timeline is back at its initial values after playback
\* had run (lastTimeRef is set, which only a running animate does).
C14_Witness ==
  /\ mission # 0 /\ ~resetPending /\ ~isPlaying
  /\ simulationStep = 0 /\ currentWaypointIndex = 0 /\ currentRun = 1
  /\ activeFailures = <<>> /\ elapsed >= 0

\* C15: a mission change resets every playback clock; in particular the index
\* the 2D view places the drone with is within [0, count - 1] of the mission
\* it is rendered with.
C15_VisIndexWithinMission ==
  (VisShown(mission, viewMode) /\ NumWaypoints(mission) >= 1) =>
    (0 <= visIndex /\ visIndex <= NumWaypoints(mission) - 1)

\* C16: play on a mission with zero waypoints is a no-op: once such a
\* mission's reset has been applied, isPlaying stays false.
C16_NoPlayWithoutWaypoints ==
  (mission # 0 /\ NumWaypoints(mission) = 0 /\ ~resetPending) => ~isPlaying

\* C17: stepForward and stepBackward move currentWaypointIndex by exactly one
\* and never out of [0, count - 1] (at the last index and at index 0 they do
\* nothing), and leave simulationStep, currentRun, isPlaying, simulationSpeed
\* and activeFailures unchanged.
C17_StepMovesIndexOnly ==
  [][ /\ StepForward =>
           /\ currentWaypointIndex' = currentWaypointIndex + 1
           /\ currentWaypointIndex' <= LastIndex(mission)
      /\ StepBackward =>
           /\ currentWaypointIndex' = currentWaypointIndex - 1
           /\ currentWaypointIndex' >= 0
      /\ (StepForward \/ StepBackward) =>
           UNCHANGED <<simulationStep, currentRun, isPlaying, simulationSpeed,
                       activeFailures, animating>>
    ]_vars

\* C17 witness: the last index of mission 1 was reached by stepping forward
\* twice while playing, before any tick.
C17_Witness ==
  /\ mission = 1 /\ currentWaypointIndex = 2 /\ simulationStep = 0
  /\ isPlaying /\ animating /\ ~crashed

\* C18: a change of the view mode, in any state including playing, leaves
\* simulationStep, currentWaypointIndex, currentRun, isPlaying,
\* simulationSpeed and activeFailures unchanged, and neither cancels nor
\* re-registers the animate loop (its closure and lastTimeRef are kept).
C18_ViewModeLeavesEngine ==
  [][viewMode' # viewMode =>
       UNCHANGED <<simulationStep, currentWaypointIndex, currentRun, isPlaying,
                   simulationSpeed, activeFailures, animating, animateIndex,
                   elapsed>>
    ]_vars

\* C18 witness: playing in a view other than the initial one, with ticks
\* consumed.
C18_Witness ==
  /\ viewMode # "split" /\ isPlaying /\ animating /\ ~crashed
  /\ simulationStep = MaxViewStep /\ elapsed = 0

\* C19: playback and the displayed failure sets do not depend on the batch
\* result: whenever the 2D view consumes a tick, the failure set it displays
\* afterwards is the same whichever result is held (none with
\* detailed_failures, or one with records), the rest of the state being equal.
C19_FailuresIgnoreBatchResult ==
  [][visStep' = visStep + 1 =>
       \A r1 \in ResultIds, r2 \in ResultIds :
         VisTickFailures(r1, mission, visStep', visFailures)
           = VisTickFailures(r2, mission, visStep', visFailures)
    ]_vars

\* C20: the failure set is recomputed only when the step count changes: a
\* step that changes no step count, submits no mission and applies no
\* reset (a frame without a tick, play, pause, stepForward, stepBackward,
\* setSpeed, setViewMode) leaves activeFailures unchanged, and leaves the set
\* displayed by each renderer that is shown before and after it unchanged.
C20_FailuresChangeOnlyWithStep ==
  [][ ( /\ ~resetPending /\ ~resetPending'
        /\ simulationStep' = simulationStep /\ visStep' = visStep ) =>
        /\ activeFailures' = activeFailures
        /\ (SceneShown(mission, viewMode) /\ SceneShown(mission, viewMode'))
             => SeqToSet(sceneFailures') = SeqToSet(sceneFailures)
        /\ (VisShown(mission, viewMode) /\ VisShown(mission, viewMode'))
             => visFailures' = visFailures
    ]_vars

\* The reference position of the claim, in tenths of a coordinate unit:
\* waypoint i at the last index, otherwise waypoint i plus
\* (waypoint i+1 - waypoint i) * (stepCount mod 10) / 10 on each axis.
ReferencePosition(wps, i, stepCount) ==
  LET Axis(a, b) == 10 * a + (b - a) * (stepCount % 10)
  IN IF i = Len(wps) - 1
       THEN << 10 * wps[i + 1].x, 10 * wps[i + 1].y, 10 * wps[i + 1].z >>
       ELSE << Axis(wps[i + 1].x, wps[i + 2].x),
               Axis(wps[i + 1].y, wps[i + 2].y),
               Axis(wps[i + 1].z, wps[i + 2].z) >>

\* The reference position drawn on the 2D canvas: (x, y) of the reference
\* position through the fit of the mission, as numerators over 2 * d * 10.
ReferenceOnCanvas(wps, i, stepCount) ==
  LET t == getTransformData(wps)
      ref == ReferencePosition(wps, i, stepCount)
  IN [x |-> 2 * t.scale.n * (ref[1] - 10 * t.minX) + 10 * t.offsetX2d,
      y |-> 2 * t.scale.n * (ref[2] - 10 * t.minY) + 10 * t.offsetY2d]

\* C21: the drone position equals the reference.  Whenever the Scene is shown
\* for a mission with waypoints and no effect has thrown, the position it
\* holds is the reference position for the dashboard's currentWaypointIndex
\* and simulationStep; and the position the 2D view computes for its own
\* index and step is the reference position for them, drawn through the fit.
C21_DroneAtReference ==
  (~crashed /\ NumWaypoints(mission) > 0) =>
    /\ SceneShown(mission, viewMode) /\ currentWaypointIndex <= LastIndex(mission)
         => dronePosition = ReferencePosition(Waypoints(mission),
                                              currentWaypointIndex, simulationStep)
    /\ VisShown(mission, viewMode) /\ visIndex <= LastIndex(mission)
         => VisDronePosition(mission, visIndex, visStep)
              = ReferenceOnCanvas(Waypoints(mission), visIndex, visStep)

\* Waypoints (0,0,0),(10,0,0),(20,0,0) at step 5, index 0: the Scene holds
\* (5,0,0), while the 2D view is half way along its own first segment.
C21_Witness ==
  /\ mission = 1 /\ ~crashed /\ ~resetPending
  /\ simulationStep = 5 /\ currentWaypointIndex = 0
  /\ dronePosition = <<50, 0, 0>>
  /\ visStep = 5 /\ visIndex = 0

\* C22: the speed multiplier is strictly positive in every reachable state:
\* no use of the speed select leaves simulationSpeed at zero or below.
C22_SpeedPositive == simulationSpeed > 0

\* The speed select has been used during playback (0.25x is stored).
C22_Witness == isPlaying /\ animating /\ simulationSpeed = 1 /\ simulationStep > 0

\* The waypoints of the mission that share their (x, y) with the first one.
AllShareXY(wps) ==
  \A k \in 1..Len(wps) : wps[k].x = wps[1].x /\ wps[k].y = wps[1].y

\* C23: for every non-empty waypoint list the 2D view fits, the scale is at
\* most 2 and every waypoint is drawn inside the canvas no closer than the
\* margin to any edge: margin <= screenX <= canvasWidth - margin and
\* margin <= screenY <= canvasHeight - margin.
C23_FitInsideMargins ==
  (VisShown(mission, viewMode) /\ NumWaypoints(mission) > 0) =>
    LET wps == Waypoints(mission)
        t == getTransformData(wps)
        d2 == 2 * t.scale.d
    IN /\ t.scale.d > 0
       /\ t.scale.n <= scaleCap * t.scale.d
       /\ \A k \in 1..Len(wps) :
            LET pt == transformCoord(wps, wps[k].x, wps[k].y)
            IN /\ d2 * margin <= pt.x /\ pt.x <= d2 * (canvasWidth - margin)
               /\ d2 * margin <= pt.y /\ pt.y <= d2 * (canvasHeight - margin)

\* A two-waypoint mission wider than the drawing area (span 846, scale
\* 700 / 846) has been fitted and animated by the 2D view.
C23_Witness ==
  /\ VisShown(mission, viewMode) /\ ~resetPending /\ visStep > 0
  /\ NumWaypoints(mission) = 2
  /\ Waypoints(mission)[1].x = 546 /\ Waypoints(mission)[2].x = -300
  /\ Waypoints(mission)[1].y = 0 /\ Waypoints(mission)[2].y = -300
  /\ getTransformData(Waypoints(mission)).scale = Frac(700, 846)

\* C24: when all waypoints of the mission share one (x, y), a single waypoint
\* included, nothing is divided by zero (both zero spans are replaced by 1
\* in scaleX and scaleY), the scale is finite and every waypoint is drawn at
\* the same screen point.
C24_SharedPointFit ==
  (VisShown(mission, viewMode) /\ NumWaypoints(mission) > 0
     /\ AllShareXY(Waypoints(mission))) =>
    LET wps == Waypoints(mission)
        t == getTransformData(wps)
    IN /\ ScaleX(wps).d > 0 /\ ScaleY(wps).d > 0
       /\ t.scale.d > 0
       /\ \A k \in 1..Len(wps) :
            transformCoord(wps, wps[k].x, wps[k].y)
              = transformCoord(wps, wps[1].x, wps[1].y)

\* Two waypoints on the same (x, y) have been fitted and animated.
C24_Witness ==
  /\ VisShown(mission, viewMode) /\ ~resetPending /\ visStep > 0
  /\ NumWaypoints(mission) = 2 /\ AllShareXY(Waypoints(mission))
  /\ Waypoints(mission)[1].x = 546

\* The step at which run totalRuns completes in uninterrupted playback from
\* a reset: totalRuns traversals of 10 * max(len - 1, 1) ticks each.
HaltStep(m) ==
  totalRuns * StepsPerWaypoint * (IF NumWaypoints(m) > 1 THEN NumWaypoints(m) - 1 ELSE 1)

\* The final run of the mission has completed since the last reset or
\* mission change.
Finished ==
  /\ mission # 0 /\ ~resetPending /\ NumWaypoints(mission) > 0
  /\ currentRun = totalRuns
  /\ simulationStep >= HaltStep(mission)

\* C25: once playback has halted because the final run completed, isPlaying
\* stays false and simulationStep stops increasing until a reset or a mission
\* change; pressing play does not resume ticking.
C25_FinishedStaysHalted ==
  [][ (Finished /\ Finished')
        => (~isPlaying' /\ simulationStep' = simulationStep) ]_vars

\* Playback is ticking again after the final run had completed.
C25_Resumed ==
  /\ Finished /\ isPlaying /\ simulationStep > HaltStep(mission)

\* The Scene shows the drone on the final waypoint of the mission while the
\* dashboard's index is the last one.
AtFinalWaypoint ==
  /\ currentWaypointIndex = LastIndex(mission)
  /\ dronePosition = ScenePosition(mission, LastIndex(mission), 0)

\* C26: a run is a complete traversal.  The index moves forward only, so in
\* uninterrupted playback of a mission with at least 2 waypoints a state with
\* the index on the last waypoint and the drone on its coordinates lies
\* between two increments of currentRun exactly when the second increment
\* starts from such a state.
C26_RunIsCompleteTraversal ==
  [][ (NumWaypoints(mission) >= 2 /\ ~resetPending /\ currentRun' = currentRun + 1)
        => AtFinalWaypoint ]_vars

\* Two increments of currentRun have happened in playback of the
\* three-waypoint mission and a third run is under way.
C26_ThirdRun ==
  /\ mission = 1 /\ currentRun = 3 /\ isPlaying /\ ~crashed
  /\ simulationStep = 2 * StepsPerWaypoint * LastIndex(mission) + 5

\* The interval already elapsed since the last consumed tick crosses the
\* threshold on its own at multiplier speed: the next animate call consumes a
\* tick however short its frame is.
AlreadyDue(e, speed) == e >= 0 /\ CrossesThreshold(e, speed)

\* C27: virtual time is accumulated per frame at the multiplier in force
\* during that frame, so raising the speed during playback does not by
\* itself make the interval that has already elapsed cross the threshold.
C27_RaisedSpeedKeepsElapsed ==
  [][ ( /\ isPlaying /\ isPlaying' /\ animating
        /\ simulationSpeed' > simulationSpeed
        /\ ~AlreadyDue(elapsed, simulationSpeed) )
        => ~AlreadyDue(elapsed', simulationSpeed') ]_vars

\* The "Active Failures" figure of the status readout.
ActiveFailureCount == Len(activeFailures)

\* C28: activeFailures never holds the same waypoint id twice, so the count
\* shown in the status readout is the number of distinct failing waypoints,
\* also when two active scenarios share an affected waypoint.
C28_ActiveFailuresIsSet ==
  ActiveFailureCount = Cardinality(SeqToSet(activeFailures))

\* The mission in force has an empty waypoint list and the reset that
\* follows its arrival has been applied.
EmptyMission == mission # 0 /\ NumWaypoints(mission) = 0 /\ ~resetPending

\* C29: with a mission whose waypoint list is empty, no play, pause, step
\* forward, step backward, speed change or frame changes simulationStep,
\* currentWaypointIndex, currentRun or activeFailures; and no waypoint is
\* read: the animate loop, the only engine code that indexes the list, is
\* never registered, and no effect throws on an index past the end.
C29_EmptyMissionInert ==
  [][ (EmptyMission /\ EmptyMission')
        => /\ UNCHANGED <<simulationStep, currentWaypointIndex, currentRun,
                          activeFailures>>
           /\ ~animating'
           /\ crashed' = crashed ]_vars

\* Play was pressed on the empty mission, the speed was changed and frames
\* have arrived since.
C29_Witness ==
  /\ EmptyMission /\ ~crashed
  /\ isPlaying /\ simulationSpeed = 20 /\ elapsed > 0
  /\ simulationStep = 0 /\ currentWaypointIndex = 0 /\ currentRun = 1

\* C30: from a reset dashboard with at least one waypoint, once play is
\* pressed and frames keep arriving with no further command, playback
\* eventually halts (isPlaying false) with currentRun = totalRuns and
\* simulationStep = totalRuns * 10 * max(len - 1, 1).
C30_PlaybackHalts ==
  (isPlaying /\ NumWaypoints(mission) > 0)
    ~> ( /\ ~isPlaying
         /\ currentRun = totalRuns
         /\ simulationStep = HaltStep(mission) )

\* Playback of the three-waypoint mission has halted at step 2000 of run 100.
C30_Witness ==
  /\ mission = 1 /\ ~isPlaying /\ ~animating /\ ~crashed
  /\ currentRun = totalRuns
  /\ simulationStep = HaltStep(mission)
  /\ simulationStep = 2000

\* Playback of a mission with at least 2 waypoints that has not yet reached
\* the tick that completes run totalRuns.
BeforeHalt ==
  /\ mission # 0 /\ ~resetPending /\ ~crashed
  /\ NumWaypoints(mission) >= 2
  /\ simulationStep < HaltStep(mission)

\* C31: in uninterrupted playback from reset of a mission with n >= 2
\* waypoints, before the halt currentWaypointIndex is
\* floor(simulationStep / 10) mod (n - 1) and currentRun is
\* 1 + floor(simulationStep / (10 * (n - 1))); simulationStep is not reset
\* by a run wrap: the tick that increments currentRun adds 1 to it.
C31_IndexAndRunFromStep ==
  /\ [](BeforeHalt =>
          /\ currentWaypointIndex
                = (simulationStep \div StepsPerWaypoint) % LastIndex(mission)
          /\ currentRun
                = 1 + simulationStep \div (StepsPerWaypoint * LastIndex(mission)))
  /\ [][ (~resetPending /\ currentRun' = currentRun + 1)
           => simulationStep' = simulationStep + 1 ]_vars

\* The three-waypoint mission in its third run, on its second segment.
C31_Witness ==
  /\ mission = 1 /\ BeforeHalt /\ isPlaying
  /\ simulationStep = 57 /\ currentWaypointIndex = 1 /\ currentRun = 3

\* A frame whose elapsed time is negative was delivered in this step.
NegativeFrame ==
  \E s \in TickSamples(-BackMs), t \in SceneTickSamples(-BackMs) : FrameBackward(s, t)

====
